---- MODULE Spec2Model ----
(***************************************************************************)
(* A model of mx3::sqlite::Db (src/src/sqlite/db.hpp, db.cpp): the         *)
(* shared-ownership lifetime of a connection and of the statements derived *)
(* from it, the hook trampolines, exec and prepare.                        *)
(*                                                                         *)
(* The engine (sqlite3) is an external library: it is modelled by what its *)
(* documented interface does at the calls db.cpp makes.                    *)
(***************************************************************************)
EXTENDS Integers, Sequences, FiniteSets

\* ------------------------------------------------------------------ bounds
\* Db objects (and native connection handles) that can ever be created.
NConn == 2
\* shared_ptr<Stmt> slots the caller can hold at once.
NStmt == 2
\* Row changes the engine can hold (pending plus committed) per connection.
MaxRows == 1

Conns == 1..NConn
Res == 1..NConn
Stmts == 1..NStmt
\* A null pointer (sqlite3 *, sqlite3_stmt *) and an empty slot.
NULL == 0

\* ------------------------------------------------------- engine constants
\* The values sqlite3.h gives the names db.cpp uses.
SQLITE_OK == 0
SQLITE_DELETE == 9
SQLITE_INSERT == 18
SQLITE_UPDATE == 23
\* Reason codes the update trampoline's int parameter can carry besides the
\* three above.
OtherCodes == {0, 7}
ReasonCodes == {SQLITE_INSERT, SQLITE_UPDATE, SQLITE_DELETE} \cup OtherCodes

\* The row a change is about, as the engine reports it to the update hook:
\* const char * db_name, const char * table_name, sqlite3_int64 row_id.
RowChanges ==
    {[db_name |-> "main", table_name |-> "t", row_id |-> 1],
     [db_name |-> "main", table_name |-> "u", row_id |-> 2]}
NoRow == [db_name |-> "", table_name |-> "", row_id |-> 0]

\* ---------------------------------------------------------------- closures
\* An empty std::function.
NoFn == "none"
UpdateFns == {"u1", "u2"}
\* A CommitHookFn is named by what it does when called.
CommitFns == {"allow", "deny", "throw"}
RollbackFns == {"r1", "r2"}

VARIABLES
    db,      \* the Db objects: state, m_db, use_count and the three hooks
    ref,     \* ref[c]: the caller holds the shared_ptr<Db> open returned
    stmt,    \* the caller's shared_ptr<Stmt> slots
    native,  \* the engine's connections: sqlite3 objects
    last     \* the last call: its name, its Db, its result, the closures run

vars == <<db, ref, stmt, native, last>>

NoDb ==
    [st |-> "none", m_db |-> NULL, use_count |-> 0,
     m_update_hook |-> NoFn, m_commit_hook |-> NoFn, m_rollback_hook |-> NoFn]

NoStmt == [live |-> FALSE, db |-> NULL, handle |-> FALSE]

NoNative ==
    [st |-> "unopened", closes |-> 0,
     update_cb |-> NULL, commit_cb |-> NULL, rollback_cb |-> NULL,
     inTxn |-> FALSE, pending |-> 0, rows |-> 0, last_rowid |-> 0]

\* What the caller saw of a call: the operation, the Db (or the handle) it
\* was about, its argument, its result, the engine's status and the
\* trampolines the engine ran during it, in order; invoked: the closures in
\* the order they ran; value: the integer it returned; code, row: the row
\* change an exec asked the engine for; script: the statements of an exec
\* given more than one.
Call(op, c, arg, res, rc, calls) ==
    [op |-> op, c |-> c, arg |-> arg, res |-> res, rc |-> rc, calls |-> calls,
     invoked |-> <<>>, value |-> 0, code |-> SQLITE_OK, row |-> NoRow,
     script |-> <<>>]

Init ==
    /\ db = [c \in Conns |-> NoDb]
    /\ ref = [c \in Conns |-> FALSE]
    /\ stmt = [s \in Stmts |-> NoStmt]
    /\ native = [r \in Res |-> NoNative]
    /\ last = Call("init", NULL, "none", "ok", "ok", <<>>)

\* The process has not been ended by an exception nobody may catch.
Running == last.res # "terminated"

Min(S) == CHOOSE x \in S : \A y \in S : x <= y

\* The next Db object and the next native handle: allocation order is fixed,
\* nothing is reused.
FreeConns == {c \in Conns : db[c].st = "none"}
FreeRes == {r \in Res : native[r].st = "unopened"}
FreeStmts == {s \in Stmts : ~stmt[s].live}

\* -------------------------------------------------------------- lifetime
\* sqlite3_close_v2: the handle is closed; an open transaction is rolled
\* back by the engine.
Close(n, r) ==
    [n EXCEPT ![r].st = "closed", ![r].closes = @ + 1,
              ![r].inTxn = FALSE, ![r].pending = 0]

CloserLeaks(n, r) == n

\* unique_ptr<sqlite3, Closer>: the deleter runs on a non-null pointer only.
Closer(n, r) == IF r = NULL THEN n ELSE Close(n, r)

MoveForgotten(n, r) == Closer(n, r)

\* std::move(temp_db): the handle goes into the Db and temp_db, left empty,
\* closes nothing when the factory returns.
MoveInto(n, r) == n

\* Db(unique_ptr<sqlite3, Closer>), owned by the shared_ptr the factory
\* returns: one reference.
NewDb(r) == [NoDb EXCEPT !.st = "live", !.m_db = r, !.use_count = 1]

\* One shared_ptr<Db> goes away: the last one destroys the Db, whose m_db
\* member runs Closer.
ReleaseDb(d, c) ==
    IF d[c].use_count = 1
    THEN [d EXCEPT ![c].use_count = 0, ![c].st = "dead",
                   ![c].m_update_hook = NoFn, ![c].m_commit_hook = NoFn,
                   ![c].m_rollback_hook = NoFn]
    ELSE [d EXCEPT ![c].use_count = @ - 1]

ReleaseNativeOnAnyDrop(d, n, c) == Closer(n, d[c].m_db)

ReleaseNative(d, n, c) ==
    IF d[c].use_count = 1 THEN Closer(n, d[c].m_db) ELSE n

\* Members are destroyed in reverse order of declaration: the three closures
\* first, m_db last. sqlite3_close_v2 rolls an open transaction back and runs
\* the rollback hook the engine still holds, against the destroyed closure
\* (was: what m_rollback_hook held until its destructor ran).
ReleaseCalls(d, n, c) ==
    IF /\ d[c].use_count = 1
       /\ d[c].m_db # NULL
       /\ n[d[c].m_db].rollback_cb # NULL
       /\ n[d[c].m_db].inTxn
    THEN <<[hook |-> "rollback", fn |-> "destroyed", code |-> 0,
            type |-> "nullopt", ret |-> 0, err |-> "none",
            given |-> NoRow, args |-> <<>>, was |-> d[c].m_rollback_hook]>>
    ELSE <<>>

\* Running a trampoline against a destroyed closure is undefined: the drop
\* may return or the process may die.
DropOutcomes(calls) == IF calls = <<>> THEN {"ok"} ELSE {"ok", "terminated"}

\* sqlite3_open_v2 hands back a handle even when it fails, except when it
\* cannot allocate one.
Open(ok, handle) ==
    /\ Running
    /\ ok => handle
    /\ handle => FreeRes # {}
    /\ ok => FreeConns # {}
    /\ LET r == IF handle THEN Min(FreeRes) ELSE NULL
           c == Min(FreeConns)
           opened == IF handle
                     THEN [native EXCEPT ![r].st = "open"]
                     ELSE native
       IN IF ok
          THEN /\ db' = [db EXCEPT ![c] = NewDb(r)]
               /\ ref' = [ref EXCEPT ![c] = TRUE]
               /\ native' = MoveInto(opened, r)
               /\ last' = Call("open", c, "none", "ok", "ok", <<>>)
          ELSE /\ native' = Closer(opened, r)
               /\ last' = Call("open", r, "none", "OpenFailed", "error", <<>>)
               /\ UNCHANGED <<db, ref>>
    /\ UNCHANGED stmt

\* inherit_db on a handle the caller opened by other means and hands over.
InheritDb ==
    /\ Running
    /\ FreeRes # {} /\ FreeConns # {}
    /\ LET r == Min(FreeRes)
           c == Min(FreeConns)
       IN /\ db' = [db EXCEPT ![c] = NewDb(r)]
          /\ ref' = [ref EXCEPT ![c] = TRUE]
          /\ native' = MoveInto([native EXCEPT ![r].st = "open"], r)
          /\ last' = Call("inherit_db", c, "none", "ok", "ok", <<>>)
    /\ UNCHANGED stmt

\* inherit_db(other->borrow_db()): inherit_db takes any sqlite3 * and cannot
\* tell that a Db owns it already; the new Db wraps the same handle.
InheritBorrowed(c) ==
    /\ Running
    /\ ref[c]
    /\ FreeConns # {}
    /\ LET r == db[c].m_db
           c2 == Min(FreeConns)
       IN /\ db' = [db EXCEPT ![c2] = NewDb(r)]
          /\ ref' = [ref EXCEPT ![c2] = TRUE]
          /\ native' = MoveInto(native, r)
          /\ last' = Call("inherit_db", c2, "borrowed", "ok", "ok", <<>>)
    /\ UNCHANGED stmt

\* The caller drops the shared_ptr<Db> it holds.
DropDb(c) ==
    /\ Running
    /\ ref[c]
    /\ ref' = [ref EXCEPT ![c] = FALSE]
    /\ db' = ReleaseDb(db, c)
    /\ native' = ReleaseNative(db, native, c)
    /\ \E res \in DropOutcomes(ReleaseCalls(db, native, c)) :
          last' = Call("drop_db", c, "none", res, "ok",
                       ReleaseCalls(db, native, c))
    /\ UNCHANGED stmt

\* new Stmt {stmt, this->shared_from_this()}
StmtRefWeak(d, c) == d

StmtRef(d, c) == [d EXCEPT ![c].use_count = @ + 1]

\* wrapped_stmt goes out of scope when prepare throws: the Stmt is destroyed
\* and gives its reference back.
PrepareUnwindLeaks(d, c) == d

PrepareUnwind(d, c) == ReleaseDb(d, c)

\* The caller must hold the Db to call prepare. sqlite3_prepare_v2 leaves
\* *ppStmt null on an error, and also on success when the text holds no
\* statement.
Prepare(c, ok, handle) ==
    /\ Running
    /\ ref[c]
    /\ handle => ok
    /\ IF ok
       THEN /\ FreeStmts # {}
            /\ db' = StmtRef(db, c)
            /\ stmt' = [stmt EXCEPT ![Min(FreeStmts)] =
                            [live |-> TRUE, db |-> c, handle |-> handle]]
            /\ native' = native
            /\ last' = Call("prepare", c, "none", "ok", "ok", <<>>)
       ELSE /\ db' = PrepareUnwind(StmtRef(db, c), c)
            /\ native' = ReleaseNative(StmtRef(db, c), native, c)
            /\ stmt' = stmt
            /\ last' = Call("prepare", c, "none", "PrepareFailed", "error", <<>>)
    /\ UNCHANGED ref

\* The caller drops a Stmt: it releases its native statement and the
\* shared_ptr<Db> it was constructed with.
DropStmt(s) ==
    /\ Running
    /\ stmt[s].live
    /\ stmt' = [stmt EXCEPT ![s] = NoStmt]
    /\ db' = ReleaseDb(db, stmt[s].db)
    /\ native' = ReleaseNative(db, native, stmt[s].db)
    /\ \E res \in DropOutcomes(ReleaseCalls(db, native, stmt[s].db)) :
          last' = Call("drop_stmt", stmt[s].db, "none", res, "ok",
                       ReleaseCalls(db, native, stmt[s].db))
    /\ UNCHANGED ref

\* sqlite3 * borrow_db(): m_db.get(), nothing changes hands.
BorrowDb(c) ==
    /\ Running
    /\ ref[c]
    /\ last' = Call("borrow_db", c, "none", "ok", "ok", <<>>)
    /\ UNCHANGED <<db, ref, stmt, native>>

\* ----------------------------------------------------------------- hooks
\* m_update_hook = update_fn (and the same for the other two kinds).
SetHookKeepsFirst(old, fn) == IF old = NoFn THEN fn ELSE old

SetHook(old, fn) == fn

UpdateHookResetsOthers(c, fn) ==
    /\ Running
    /\ ref[c]
    /\ db' = [db EXCEPT ![c].m_update_hook = SetHook(@, fn),
                        ![c].m_commit_hook = NoFn,
                        ![c].m_rollback_hook = NoFn]
    /\ native' = [native EXCEPT ![db[c].m_db].update_cb = c]
    /\ last' = Call("update_hook", c, fn, "ok", "ok", <<>>)
    /\ UNCHANGED <<ref, stmt>>

\* update_hook: store the closure, then sqlite3_update_hook(m_db.get(),
\* trampoline, this).
UpdateHook(c, fn) ==
    /\ Running
    /\ ref[c]
    /\ db' = [db EXCEPT ![c].m_update_hook = SetHook(@, fn)]
    /\ native' = [native EXCEPT ![db[c].m_db].update_cb = c]
    /\ last' = Call("update_hook", c, fn, "ok", "ok", <<>>)
    /\ UNCHANGED <<ref, stmt>>

CommitHook(c, fn) ==
    /\ Running
    /\ ref[c]
    /\ db' = [db EXCEPT ![c].m_commit_hook = SetHook(@, fn)]
    /\ native' = [native EXCEPT ![db[c].m_db].commit_cb = c]
    /\ last' = Call("commit_hook", c, fn, "ok", "ok", <<>>)
    /\ UNCHANGED <<ref, stmt>>

RollbackHook(c, fn) ==
    /\ Running
    /\ ref[c]
    /\ db' = [db EXCEPT ![c].m_rollback_hook = SetHook(@, fn)]
    /\ native' = [native EXCEPT ![db[c].m_db].rollback_cb = c]
    /\ last' = Call("rollback_hook", c, fn, "ok", "ok", <<>>)
    /\ UNCHANGED <<ref, stmt>>

\* Closures that, while they run, register a closure of their own kind on
\* the connection they were called for: the update closure "u_swap", the
\* commit closure "c_swap" (which then returns false) and the rollback
\* closure "r_swap".
Reentrant == {"u_swap", "c_swap", "r_swap"}

\* The closure a re-entrant closure registers.
Registers(fn) ==
    CASE fn = "u_swap" -> "u2"
      [] fn = "c_swap" -> "allow"
      [] OTHER -> "r2"

CalledInPlace(fn) == IF fn \in Reentrant THEN "destroyed" ELSE fn

\* auto hook = db->m_update_hook; hook(...): the trampoline calls a copy,
\* which an assignment to the member during the call does not touch.
CopyOf(fn) == fn

\* One run of a trampoline: the closure it called (NoFn: none), the reason
\* code it was given and the ChangeType it passed on, the int it returned to
\* the engine, and the exception that left it ("none": none); for the update
\* trampoline also the row it was given and the arguments the closure got.
Ran(hook, fn, code, type, ret, err) ==
    [hook |-> hook, fn |-> fn, code |-> code, type |-> type, ret |-> ret,
     err |-> err, given |-> NoRow, args |-> <<>>]

\* The switch over change_type; type stays nullopt for any other code.
ChangeTypeDefaultsToInsert(code) ==
    CASE code = SQLITE_UPDATE -> "UPDATE"
      [] code = SQLITE_DELETE -> "DELETE"
      [] OTHER -> "INSERT"

ChangeTypeOf(code) ==
    CASE code = SQLITE_INSERT -> "INSERT"
      [] code = SQLITE_UPDATE -> "UPDATE"
      [] code = SQLITE_DELETE -> "DELETE"
      [] OTHER -> "nullopt"

ClosureArgsSwapped(type, row) ==
    <<type, row.table_name, row.db_name, row.row_id>>

\* update_hook(*type, string {db_name}, string {table_name},
\* static_cast<int64_t>(row_id)): the strings are copied, and sqlite3_int64
\* is as wide as int64_t.
ClosureArgs(type, row) == <<type, row.db_name, row.table_name, row.row_id>>

\* The lambda given to sqlite3_update_hook.
UpdateTrampoline(d, c, code, row) ==
    LET fn == d[c].m_update_hook
        type == ChangeTypeOf(code)
        ran == IF fn = NoFn
               THEN Ran("update", NoFn, code, "nullopt", 0, "none")
               ELSE IF type = "nullopt"
                    THEN Ran("update", NoFn, code, type, 0, "Unexpected update type")
                    ELSE [Ran("update", CopyOf(fn), code, type, 0, "none")
                             EXCEPT !.args = ClosureArgs(type, row)]
    IN [ran EXCEPT !.given = row]

\* What a commit closure does when called: the bool it returns, or the
\* exception it throws.
CommitFnThrows(fn) == fn = "throw"
CommitFnResult(fn) == fn = "allow"

CommitRetInverted(result) == IF result THEN 1 ELSE 0

\* return result ? 0 : 1;
CommitRet(result) == IF result THEN 0 ELSE 1

CommitDefaultDenies == SQLITE_OK + 1

\* return 0; with no closure stored.
CommitDefault == SQLITE_OK

\* The lambda given to sqlite3_commit_hook.
CommitTrampoline(d, c) ==
    LET fn == d[c].m_commit_hook
    IN IF fn = NoFn
       THEN Ran("commit", NoFn, 0, "nullopt", CommitDefault, "none")
       ELSE IF CommitFnThrows(CopyOf(fn))
            THEN Ran("commit", CopyOf(fn), 0, "nullopt", 0, "closure threw")
            ELSE Ran("commit", CopyOf(fn), 0, "nullopt",
                     CommitRet(CommitFnResult(CopyOf(fn))), "none")

\* The lambda given to sqlite3_rollback_hook.
RollbackTrampoline(d, c) ==
    LET fn == d[c].m_rollback_hook
    IN IF fn = NoFn
       THEN Ran("rollback", NoFn, 0, "nullopt", 0, "none")
       ELSE Ran("rollback", CopyOf(fn), 0, "nullopt", 0, "none")

\* The Db whose trampoline the engine calls for a kind: the context pointer
\* given with the hook.
CtxOf(e, hook) ==
    CASE hook = "update" -> e.update_cb
      [] hook = "commit" -> e.commit_cb
      [] OTHER -> e.rollback_cb

\* The registration a closure made while it ran: m_*_hook = fn on the Db it
\* was called for (the engine is given the same trampoline and context
\* again).
Reregister(d, c, run) ==
    IF run.fn \notin Reentrant THEN d
    ELSE CASE run.hook = "update" ->
                [d EXCEPT ![c].m_update_hook = SetHook(@, Registers(run.fn))]
           [] run.hook = "commit" ->
                [d EXCEPT ![c].m_commit_hook = SetHook(@, Registers(run.fn))]
           [] OTHER ->
                [d EXCEPT ![c].m_rollback_hook = SetHook(@, Registers(run.fn))]

\* The Db objects after the closures of calls have run, in order.
RECURSIVE AfterClosures(_, _, _)
AfterClosures(d, e, calls) ==
    IF calls = <<>> THEN d
    ELSE AfterClosures(Reregister(d, CtxOf(e, Head(calls).hook), Head(calls)),
                       e, Tail(calls))

Reverse(s) == [i \in 1..Len(s) |-> s[Len(s) + 1 - i]]

HasClosure(run) == run.fn # NoFn
ClosureOf(run) == [hook |-> run.hook, fn |-> run.fn]
MapClosure(s) == [i \in 1..Len(s) |-> ClosureOf(s[i])]

InvokedAfterwards(calls) == Reverse(MapClosure(SelectSeq(calls, HasClosure)))

\* Each lambda calls its closure itself, before it returns to the engine:
\* the closures run in the order of the trampolines that call them.
Invoked(calls) == MapClosure(SelectSeq(calls, HasClosure))

\* ---------------------------------------------------------------- engine
\* What the engine does with one connection e (a native[r]) while it runs a
\* statement: its documented behaviour at the hook points.
Sqls == {"BEGIN", "WRITE", "COMMIT", "ROLLBACK", "BAD"}

\* The outcome of running a statement: the connection afterwards, the
\* trampolines run, and the status ("escaped": an exception left a
\* trampoline into the engine's frames).
Out(e, calls, rc) == [e |-> e, calls |-> calls, rc |-> rc]

Committed(e) ==
    [e EXCEPT !.rows = @ + e.pending, !.pending = 0, !.inTxn = FALSE]

RolledBack(e) == [e EXCEPT !.pending = 0, !.inTxn = FALSE]

\* The engine calls a hook only once one was set with sqlite3_*_hook; the
\* context pointer it passes is the Db that set it.
OnUpdate(d, e, code, row) ==
    IF e.update_cb = NULL THEN <<>>
    ELSE <<UpdateTrampoline(d, e.update_cb, code, row)>>

OnCommit(d, e) ==
    IF e.commit_cb = NULL THEN <<>> ELSE <<CommitTrampoline(d, e.commit_cb)>>

OnRollback(d, e) ==
    IF e.rollback_cb = NULL THEN <<>> ELSE <<RollbackTrampoline(d, e.rollback_cb)>>

Escaped(calls) == \E i \in 1..Len(calls) : calls[i].err # "none"
Denied(calls) == \E i \in 1..Len(calls) : calls[i].ret # 0

\* A write transaction reaches its commit point: the commit hook runs; a
\* non-zero return turns the commit into a rollback, and the rollback hook
\* runs after the changes are undone.
CommitPoint(d, e, before) ==
    LET ch == OnCommit(d, e)
    IN IF Escaped(ch) THEN Out(e, before \o ch, "escaped")
       ELSE IF Denied(ch)
            THEN Out(RolledBack(e), before \o ch \o OnRollback(d, e), "error")
            ELSE Out(Committed(e), before \o ch, "ok")

\* One row is changed: the update hook runs for it; outside a transaction
\* the statement commits on its own. An insert sets the connection's last
\* insert rowid, which no later rollback resets.
Write(d, e, code, row) ==
    LET e1 == [e EXCEPT !.pending = @ + 1,
                        !.last_rowid = IF code = SQLITE_INSERT
                                       THEN row.row_id ELSE @]
        uh == OnUpdate(d, e1, code, row)
    IN IF Escaped(uh) THEN Out(e1, uh, "escaped")
       ELSE IF e.inTxn THEN Out(e1, uh, "ok")
            ELSE CommitPoint(d, e1, uh)

Run(d, e, sql, code, row) ==
    CASE sql = "BEGIN" ->
            IF e.inTxn THEN Out(e, <<>>, "error")
            ELSE Out([e EXCEPT !.inTxn = TRUE], <<>>, "ok")
      [] sql = "WRITE" -> Write(d, e, code, row)
      [] sql = "COMMIT" ->
            IF ~e.inTxn THEN Out(e, <<>>, "error")
            ELSE IF e.pending = 0 THEN Out(Committed(e), <<>>, "ok")
            ELSE CommitPoint(d, e, <<>>)
      [] sql = "ROLLBACK" ->
            IF ~e.inTxn THEN Out(e, <<>>, "error")
            ELSE Out(RolledBack(e), OnRollback(d, e), "ok")
      [] OTHER -> Out(e, <<>>, "error")

\* ------------------------------------------------------------------ exec
ThrowsOnAnyFailure(result, error_msg) == result

\* if (result && error_msg) throw
Throws(result, error_msg) == result /\ error_msg

\* exec(sql): sqlite3_exec runs sql and returns a status and, when it can
\* allocate one, a message. code is the reason code the engine reports for
\* the row a WRITE changes.
Exec(c, sql, code, row, error_msg) ==
    /\ Running
    /\ ref[c]
    /\ sql = "WRITE" => native[db[c].m_db].rows + native[db[c].m_db].pending < MaxRows
    /\ sql # "WRITE" => code = SQLITE_INSERT /\ row = NoRow
    /\ sql = "WRITE" => row \in RowChanges
    /\ LET r == db[c].m_db
           out == Run(db, native[r], sql, code, row)
       IN /\ native' = [native EXCEPT ![r] = out.e]
          /\ IF out.rc = "escaped"
             THEN \E res \in {"unwound", "terminated"} :
                     last' = [Call("exec", c, sql, res, out.rc, out.calls)
                                 EXCEPT !.invoked = Invoked(out.calls),
                                        !.code = code, !.row = row]
             ELSE /\ out.rc = "ok" => error_msg
                  /\ last' = [Call("exec", c, sql,
                                   IF Throws(out.rc # "ok", error_msg)
                                   THEN "ExecFailed" ELSE "ok",
                                   out.rc, out.calls)
                                 EXCEPT !.invoked = Invoked(out.calls),
                                        !.code = code, !.row = row]
          /\ db' = AfterClosures(db, native[r], out.calls)
    /\ UNCHANGED <<ref, stmt>>

\* sqlite3_exec on several statements separated by semicolons: it runs them
\* in order and stops at the first one that fails, returning its code.
RECURSIVE RunScript(_, _, _, _, _, _)
RunScript(d, e, sqls, code, row, calls) ==
    IF sqls = <<>> THEN Out(e, calls, "ok")
    ELSE LET o == Run(d, e, Head(sqls), code, row)
         IN IF o.rc # "ok" THEN Out(o.e, calls \o o.calls, o.rc)
            ELSE RunScript(AfterClosures(d, o.e, o.calls), o.e, Tail(sqls),
                           code, row, calls \o o.calls)

Writes(sqls) == Cardinality({i \in DOMAIN sqls : sqls[i] = "WRITE"})

\* void exec(const string& sql) with sql holding the statements sqls; code and
\* row are the row change of its WRITE statements.
ExecScript(c, sqls, code, row, error_msg) ==
    /\ Running
    /\ ref[c]
    /\ native[db[c].m_db].rows + native[db[c].m_db].pending + Writes(sqls)
          <= MaxRows
    /\ IF Writes(sqls) = 0 THEN code = SQLITE_INSERT /\ row = NoRow
       ELSE row \in RowChanges
    /\ LET r == db[c].m_db
           out == RunScript(db, native[r], sqls, code, row, <<>>)
       IN /\ native' = [native EXCEPT ![r] = out.e]
          /\ IF out.rc = "escaped"
             THEN \E res \in {"unwound", "terminated"} :
                     last' = [Call("exec", c, "SCRIPT", res, out.rc, out.calls)
                                 EXCEPT !.invoked = Invoked(out.calls),
                                        !.code = code, !.row = row,
                                        !.script = sqls]
             ELSE /\ out.rc = "ok" => error_msg
                  /\ last' = [Call("exec", c, "SCRIPT",
                                   IF Throws(out.rc # "ok", error_msg)
                                   THEN "ExecFailed" ELSE "ok",
                                   out.rc, out.calls)
                                 EXCEPT !.invoked = Invoked(out.calls),
                                        !.code = code, !.row = row,
                                        !.script = sqls]
          /\ db' = AfterClosures(db, native[r], out.calls)
    /\ UNCHANGED <<ref, stmt>>

RowidOfFirstConn(n, d, c) == n[1].last_rowid

\* sqlite3_last_insert_rowid(m_db.get()): the engine keeps the value per
\* sqlite3 object.
RowidOf(n, d, c) == n[d[c].m_db].last_rowid

\* int64_t last_insert_rowid(): reads the engine, changes nothing.
LastInsertRowid(c) ==
    /\ Running
    /\ ref[c]
    /\ last' = [Call("last_insert_rowid", c, "none", "ok", "ok", <<>>)
                   EXCEPT !.value = RowidOf(native, db, c)]
    /\ UNCHANGED <<db, ref, stmt, native>>

NextHooks ==
    \/ \E c \in Conns, fn \in UpdateFns \cup {NoFn} : UpdateHook(c, fn)
    \/ \E c \in Conns, fn \in CommitFns \cup {NoFn} : CommitHook(c, fn)
    \/ \E c \in Conns, fn \in RollbackFns \cup {NoFn} : RollbackHook(c, fn)
    \/ \E c \in Conns, sql \in Sqls, code \in ReasonCodes,
          row \in RowChanges \cup {NoRow}, error_msg \in BOOLEAN :
          Exec(c, sql, code, row, error_msg)
    \/ \E c \in Conns : LastInsertRowid(c)

\* A program that has opened one connection and works with its hooks.
InitHooks ==
    /\ db = [c \in Conns |-> IF c = 1 THEN NewDb(1) ELSE NoDb]
    /\ ref = [c \in Conns |-> c = 1]
    /\ stmt = [s \in Stmts |-> NoStmt]
    /\ native = [r \in Res |-> IF r = 1 THEN [NoNative EXCEPT !.st = "open"] ELSE NoNative]
    /\ last = Call("open", 1, "none", "ok", "ok", <<>>)

SpecHooks == InitHooks /\ [][NextHooks]_vars

\* A program that has opened two connections, A = 1 and B = 2, on the same
\* database file, and runs statements on both. (rows counts what each
\* connection committed.)
InitTwo ==
    /\ db = [c \in Conns |-> IF c <= 2 THEN NewDb(c) ELSE NoDb]
    /\ ref = [c \in Conns |-> c <= 2]
    /\ stmt = [s \in Stmts |-> NoStmt]
    /\ native = [r \in Res |-> IF r <= 2 THEN [NoNative EXCEPT !.st = "open"]
                                ELSE NoNative]
    /\ last = Call("open", 2, "none", "ok", "ok", <<>>)

NextRowid ==
    \/ \E c \in Conns, sql \in Sqls, code \in ReasonCodes,
          row \in RowChanges \cup {NoRow}, error_msg \in BOOLEAN :
          Exec(c, sql, code, row, error_msg)
    \/ \E c \in Conns : LastInsertRowid(c)

SpecRowid == InitTwo /\ [][NextRowid]_vars

\* A program that registers rollback closures on its connection, runs
\* statements, prepares statements and drops what it holds.
NextClose ==
    \/ \E c \in Conns, fn \in RollbackFns \cup {NoFn} : RollbackHook(c, fn)
    \/ \E c \in Conns, sql \in Sqls, code \in ReasonCodes,
          row \in RowChanges \cup {NoRow}, error_msg \in BOOLEAN :
          Exec(c, sql, code, row, error_msg)
    \/ \E c \in Conns, ok \in BOOLEAN, handle \in BOOLEAN :
          Prepare(c, ok, handle)
    \/ \E s \in Stmts : DropStmt(s)
    \/ \E c \in Conns : DropDb(c)

SpecClose == InitHooks /\ [][NextClose]_vars

\* A program whose closures re-register a closure of their own kind while
\* they run.
NextReentry ==
    \/ \E c \in Conns, fn \in {"u_swap", "u2", NoFn} : UpdateHook(c, fn)
    \/ \E c \in Conns, fn \in {"c_swap", "allow", NoFn} : CommitHook(c, fn)
    \/ \E c \in Conns, fn \in {"r_swap", "r2", NoFn} : RollbackHook(c, fn)
    \/ \E c \in Conns, sql \in Sqls, code \in ReasonCodes,
          row \in RowChanges \cup {NoRow}, error_msg \in BOOLEAN :
          Exec(c, sql, code, row, error_msg)

SpecReentry == InitHooks /\ [][NextReentry]_vars

\* A program with two open connections that registers a closure of each
\* kind on either, writes rows, prepares statements and asks for the last
\* insert rowid.
NextFrame ==
    \/ \E c \in Conns : UpdateHook(c, "u1")
    \/ \E c \in Conns : CommitHook(c, "deny")
    \/ \E c \in Conns : RollbackHook(c, "r1")
    \/ \E c \in Conns, sql \in {"WRITE", "BAD"} :
          Exec(c, sql, SQLITE_INSERT,
               IF sql = "WRITE" THEN [db_name |-> "main", table_name |-> "t",
                                       row_id |-> 1]
               ELSE NoRow, TRUE)
    \/ \E c \in Conns, ok \in BOOLEAN : Prepare(c, ok, ok)
    \/ \E c \in Conns : LastInsertRowid(c)

SpecFrame == InitTwo /\ [][NextFrame]_vars

\* The scripts of two statements.
Scripts == {<<a, b>> : a \in Sqls, b \in Sqls}

\* A program that runs single statements and scripts on one connection and
\* registers rollback closures.
NextScript ==
    \/ \E c \in Conns, fn \in RollbackFns \cup {NoFn} : RollbackHook(c, fn)
    \/ \E c \in Conns, sql \in Sqls, code \in ReasonCodes,
          row \in RowChanges \cup {NoRow}, error_msg \in BOOLEAN :
          Exec(c, sql, code, row, error_msg)
    \/ \E c \in Conns, sqls \in Scripts, code \in ReasonCodes,
          row \in RowChanges \cup {NoRow}, error_msg \in BOOLEAN :
          ExecScript(c, sqls, code, row, error_msg)

SpecScript == InitHooks /\ [][NextScript]_vars


NextLife ==
    \/ \E ok \in BOOLEAN, handle \in BOOLEAN : Open(ok, handle)
    \/ InheritDb
    \/ \E c \in Conns : DropDb(c)
    \/ \E c \in Conns, ok \in BOOLEAN, handle \in BOOLEAN : Prepare(c, ok, handle)
    \/ \E s \in Stmts : DropStmt(s)
    \/ \E c \in Conns : BorrowDb(c)

\* A program that opens connections, prepares statements and drops them.
SpecLife == Init /\ [][NextLife]_vars

\* The same program, which may also hand inherit_db a borrowed handle.
NextAdopt == NextLife \/ \E c \in Conns : InheritBorrowed(c)

SpecAdopt == Init /\ [][NextAdopt]_vars

\* The whole interface.
Next == NextAdopt \/ NextHooks

Spec == Init /\ [][Next]_vars
\* ---------------------------------------------------------------- claims
\* The references held on Db c: the caller's, and one per live Stmt
\* prepared from it.
StmtsOf(c) == {s \in Stmts : stmt[s].live /\ stmt[s].db = c}
Held(c) == ref[c] \/ StmtsOf(c) # {}
Created == {c \in Conns : db[c].st # "none"}

\* C1: the native connection of a Db is closed exactly once: it is open and
\* was never closed while the caller's reference or any Stmt derived from
\* the Db is held, and it is closed, once, in every state where none is.
C1_ReleasedExactlyOnce ==
    \A c \in Created :
        LET e == native[db[c].m_db]
        IN /\ e.closes <= 1
           /\ Held(c) => e.st = "open" /\ e.closes = 0
           /\ ~Held(c) => e.st = "closed" /\ e.closes = 1

\* The last reference dropped was a Stmt, after the caller's own.
C1_Witness ==
    /\ last.op = "drop_stmt"
    /\ db[last.c].st = "dead"
    /\ native[db[last.c].m_db].closes = 1

\* C2: every live Stmt's Db is alive and its native connection is open,
\* whether or not the caller still holds the Db.
C2_StmtKeepsDbAlive ==
    \A s \in Stmts :
        stmt[s].live =>
            /\ db[stmt[s].db].st = "live"
            /\ db[stmt[s].db].use_count >= 1
            /\ native[db[stmt[s].db].m_db].st = "open"

\* The caller dropped its Db and a Stmt still holds the connection open.
C2_Witness ==
    \E s \in Stmts :
        /\ stmt[s].live
        /\ ~ref[stmt[s].db]
        /\ last.op = "drop_db" /\ last.c = stmt[s].db
        /\ native[db[stmt[s].db].m_db].st = "open"

\* C9: a failed open produces no Db and closes the handle the engine handed
\* back, once; a successful open produces one Db, the only owner of a handle
\* that is open and was never closed.
C9_Open ==
    [][last'.op = "open" =>
        IF last'.res = "OpenFailed"
        THEN /\ db' = db /\ ref' = ref
             /\ \A r \in Res :
                   IF r = last'.c
                   THEN /\ native[r].st = "unopened"
                        /\ native'[r].st = "closed"
                        /\ native'[r].closes = 1
                   ELSE native'[r] = native[r]
        ELSE LET c == last'.c
             IN /\ db[c].st = "none" /\ db'[c].st = "live" /\ ref'[c]
                /\ \A c2 \in Conns \ {c} :
                      /\ db'[c2] = db[c2]
                      /\ db'[c2].st # "none" => db'[c2].m_db # db'[c].m_db
                /\ native[db'[c].m_db].st = "unopened"
                /\ native'[db'[c].m_db].st = "open"
                /\ native'[db'[c].m_db].closes = 0]_vars

\* An open failed after the engine handed back a handle.
C9_Witness ==
    /\ last.op = "open" /\ last.res = "OpenFailed"
    /\ last.c # NULL
    /\ native[last.c].closes = 1

\* C10: a prepare the engine rejects returns PrepareFailed and changes
\* nothing: the live Stmts, the references on every Db and the native
\* connections are as before, and the caller's connection stays open.
C10_PrepareFailed ==
    [][(last'.op = "prepare" /\ last'.res = "PrepareFailed") =>
        /\ stmt' = stmt
        /\ db' = db
        /\ ref' = ref
        /\ native' = native
        /\ native'[db'[last'.c].m_db].st = "open"]_vars

\* A prepare failed on a Db that already has a live Stmt.
C10_Witness ==
    /\ last.op = "prepare" /\ last.res = "PrepareFailed"
    /\ StmtsOf(last.c) # {}
    /\ db[last.c].use_count = 2
\* The trampolines of one kind the engine ran during the last call.
Runs(calls, hook) == {i \in 1..Len(calls) : calls[i].hook = hook}

\* The closure a Db holds for a kind.
HookOf(d, c, hook) ==
    CASE hook = "update" -> d[c].m_update_hook
      [] hook = "commit" -> d[c].m_commit_hook
      [] OTHER -> d[c].m_rollback_hook

Registrations == {"update_hook", "commit_hook", "rollback_hook"}
KindOf(op) ==
    CASE op = "update_hook" -> "update"
      [] op = "commit_hook" -> "commit"
      [] OTHER -> "rollback"

\* C3: a registration replaces the closure of its kind by the one given,
\* whatever was there; an exec leaves the closures alone, and each hook
\* point of it runs at most one closure, the one registered last.
C3_Replaces ==
    [][/\ last'.op \in Registrations =>
            HookOf(db', last'.c, KindOf(last'.op)) = last'.arg
       /\ last'.op = "exec" =>
            /\ db' = db
            /\ \A i \in 1..Len(last'.calls) :
                  last'.calls[i].fn \in
                      {NoFn, HookOf(db, last'.c, last'.calls[i].hook)}
            /\ \A h \in {"update", "commit", "rollback"} :
                  Cardinality(Runs(last'.calls, h)) <= 1]_vars

\* One statement's row change was seen by u2 and its rollback by r2.
C3_Witness ==
    /\ last.op = "exec"
    /\ \E i \in Runs(last.calls, "update") : last.calls[i].fn = "u2"
    /\ \E i \in Runs(last.calls, "rollback") : last.calls[i].fn = "r2"

\* The statement reached the commit point of a write transaction.
AtCommitPoint(e, sql, calls) ==
    /\ \A i \in 1..Len(calls) : calls[i].err = "none"
    /\ \/ sql = "WRITE" /\ ~e.inTxn
       \/ sql = "COMMIT" /\ e.inTxn /\ e.pending > 0

\* The rows a commit at that point makes durable.
RowsIfCommitted(e, sql) == e.rows + e.pending + (IF sql = "WRITE" THEN 1 ELSE 0)

\* C4: with no closure of a kind in the Db (never registered, or an empty
\* one registered), a row change calls nothing and raises nothing, a commit
\* is answered 0 and goes through, and a rollback calls nothing.
C4_SafeDefault ==
    [][last'.op = "exec" =>
        LET c == last'.c
            calls == last'.calls
            e == native[db[c].m_db]
        IN /\ db[c].m_update_hook = NoFn =>
                \A i \in Runs(calls, "update") :
                    calls[i].fn = NoFn /\ calls[i].err = "none"
           /\ db[c].m_commit_hook = NoFn =>
                /\ \A i \in Runs(calls, "commit") :
                      calls[i].fn = NoFn /\ calls[i].ret = 0 /\ calls[i].err = "none"
                /\ AtCommitPoint(e, last'.arg, calls) =>
                      /\ last'.rc = "ok"
                      /\ native'[db[c].m_db].rows = RowsIfCommitted(e, last'.arg)
                      /\ native'[db[c].m_db].pending = 0
           /\ db[c].m_rollback_hook = NoFn =>
                \A i \in Runs(calls, "rollback") : calls[i].fn = NoFn]_vars

\* A commit went through the trampoline with an empty closure stored.
C4_Witness ==
    /\ last.op = "exec" /\ last.rc = "ok"
    /\ \E i \in Runs(last.calls, "commit") :
          last.calls[i].fn = NoFn /\ last.calls[i].ret = 0
    /\ native[db[last.c].m_db].rows = 1

\* C5: a commit closure that returns false makes the trampoline return
\* non-zero: the writes are discarded and the rollback closure, if there is
\* one, runs once, after it; one that returns true makes it return 0: the
\* writes are committed and no rollback hook runs.
C5_CommitDecides ==
    [][last'.op = "exec" =>
        LET c == last'.c
            calls == last'.calls
            e == native[db[c].m_db]
            e2 == native'[db[c].m_db]
            rb == Runs(calls, "rollback")
        IN \A i \in Runs(calls, "commit") :
              /\ calls[i].fn = "deny" =>
                    /\ calls[i].ret # 0
                    /\ e2.rows = e.rows /\ e2.pending = 0 /\ ~e2.inTxn
                    /\ db[c].m_rollback_hook # NoFn =>
                          /\ Cardinality(rb) = 1
                          /\ \A j \in rb : j > i /\ calls[j].fn = db[c].m_rollback_hook
                    /\ db[c].m_rollback_hook = NoFn =>
                          \A j \in rb : calls[j].fn = NoFn
              /\ calls[i].fn = "allow" =>
                    /\ calls[i].ret = 0
                    /\ e2.rows = RowsIfCommitted(e, last'.arg)
                    /\ e2.pending = 0 /\ ~e2.inTxn
                    /\ rb = {}]_vars

\* A commit was denied inside a transaction and the rollback closure ran.
C5_Witness ==
    /\ last.op = "exec" /\ last.arg = "COMMIT"
    /\ Len(last.calls) = 2
    /\ last.calls[1].hook = "commit" /\ last.calls[1].fn = "deny"
    /\ last.calls[2].hook = "rollback" /\ last.calls[2].fn = "r1"
    /\ native[db[last.c].m_db].rows = 0

\* C6: exec raises ExecFailed for every status of the engine other than
\* success, with or without a message, and returns normally on success only.
C6_ExecNeverSwallows ==
    last.op = "exec" /\ last.rc # "escaped" =>
        (last.res = "ExecFailed" <=> last.rc # "ok")

\* C7: no exception raised by a closure leaves its trampoline into the
\* engine: the trampoline that called the closure ends without one, and a
\* commit closure that threw is answered with deny.
C7_NothingEscapes ==
    last.op = "exec" =>
        \A i \in 1..Len(last.calls) :
            last.calls[i].fn # NoFn =>
                /\ last.calls[i].err = "none"
                /\ CommitFnThrows(last.calls[i].fn) => last.calls[i].ret # 0

KnownCodes == {SQLITE_INSERT, SQLITE_UPDATE, SQLITE_DELETE}

\* C8, as stated: every run of the update trampoline with a reason code
\* outside the enumeration raises the consistency error and calls no
\* closure, with or without a closure registered.
C8_AlwaysFlags ==
    last.op = "exec" =>
        \A i \in Runs(last.calls, "update") :
            last.calls[i].code \notin KnownCodes =>
                /\ last.calls[i].err = "Unexpected update type"
                /\ last.calls[i].fn = NoFn

\* C8, amended: with a closure registered, a reason code outside the
\* enumeration raises the consistency error and the closure is not called;
\* with none registered the trampoline does nothing and raises nothing; a
\* closure is only ever called with the ChangeType of the code given.
C8_FlagsWhenRegistered ==
    last.op = "exec" =>
        \A i \in Runs(last.calls, "update") :
            LET run == last.calls[i]
                fn == db[last.c].m_update_hook
            IN /\ run.code \notin KnownCodes =>
                    /\ run.fn = NoFn
                    /\ run.err = (IF fn = NoFn THEN "none" ELSE "Unexpected update type")
               /\ run.fn # NoFn =>
                    /\ run.code \in KnownCodes
                    /\ run.type = "INSERT" <=> run.code = SQLITE_INSERT
                    /\ run.type = "UPDATE" <=> run.code = SQLITE_UPDATE
                    /\ run.type = "DELETE" <=> run.code = SQLITE_DELETE

\* A row change came with an unknown reason code while u1 was registered.
C8_Witness ==
    /\ last.op = "exec"
    /\ db[last.c].m_update_hook = "u1"
    /\ \E i \in Runs(last.calls, "update") :
          /\ last.calls[i].code \notin KnownCodes
          /\ last.calls[i].err = "Unexpected update type"
\* C11: with an update closure registered, a row change the engine reports
\* with a known reason code runs that closure exactly once, with the
\* ChangeType of the code and the database name, table name and row id the
\* engine gave.
C11_UpdateDispatch ==
    (last.op = "exec" /\ last.arg = "WRITE" /\ db[last.c].m_update_hook # NoFn) =>
        LET up == Runs(last.calls, "update")
        IN /\ Cardinality(up) = 1
           /\ \A i \in up :
                 LET run == last.calls[i]
                 IN run.code \in KnownCodes =>
                       /\ run.fn = db[last.c].m_update_hook
                       /\ run.args[1] = (CASE run.code = SQLITE_INSERT -> "INSERT"
                                           [] run.code = SQLITE_UPDATE -> "UPDATE"
                                           [] run.code = SQLITE_DELETE -> "DELETE")
                       /\ run.args[2] = run.given.db_name
                       /\ run.args[3] = run.given.table_name
                       /\ run.args[4] = run.given.row_id

\* Row 1 was inserted into table t and the closure got (INSERT, main, t, 1).
C11_Witness ==
    /\ last.op = "exec" /\ last.arg = "WRITE"
    /\ Len(last.calls) >= 1
    /\ last.calls[1].fn = "u1"
    /\ last.calls[1].code = SQLITE_INSERT
    /\ last.calls[1].args = <<"INSERT", "main", "t", 1>>
\* The place in the trampoline runs of the k-th run that has a closure.
KthWithClosure(calls, k) ==
    CHOOSE i \in 1..Len(calls) :
        /\ calls[i].fn # NoFn
        /\ Cardinality({j \in 1..i : calls[j].fn # NoFn}) = k

\* The engine's order within one statement: the row's update hook, then the
\* commit hook, then the rollback hook.
HookRank(hook) ==
    CASE hook = "update" -> 1 [] hook = "commit" -> 2 [] OTHER -> 3

\* C12: the closures run in the order in which the engine ran their
\* trampolines, none dropped and none added: the k-th closure invoked is the
\* closure of the k-th trampoline run that had one; within a statement that
\* is the update closure, then the commit closure, then the rollback closure.
C12_EngineOrder ==
    last.op = "exec" =>
        LET calls == last.calls
            n == Cardinality({i \in 1..Len(calls) : calls[i].fn # NoFn})
        IN /\ Len(last.invoked) = n
           /\ \A k \in 1..n :
                 /\ last.invoked[k].hook = calls[KthWithClosure(calls, k)].hook
                 /\ last.invoked[k].fn = calls[KthWithClosure(calls, k)].fn
           /\ \A k \in 1..n, l \in 1..n :
                 k < l => HookRank(last.invoked[k].hook) < HookRank(last.invoked[l].hook)
           /\ \A i \in 1..Len(calls), j \in 1..Len(calls) :
                 i < j => HookRank(calls[i].hook) < HookRank(calls[j].hook)

\* An insert outside a transaction ran the update closure, then the commit
\* closure, which denied, then the rollback closure.
C12_Witness ==
    /\ last.op = "exec"
    /\ last.invoked = <<[hook |-> "update", fn |-> "u1"],
                        [hook |-> "commit", fn |-> "deny"],
                        [hook |-> "rollback", fn |-> "r1"]>>
\* The Db objects that wrap native handle r.
OwnersOf(r) == {c \in Created : db[c].m_db = r}

\* C13, as stated: a native handle is wrapped by at most one Db and closed
\* at most once, whatever open, inherit_db and borrow_db calls are made.
C13_SingleOwner ==
    \A r \in Res :
        /\ Cardinality(OwnersOf(r)) <= 1
        /\ native[r].closes <= 1

\* C13, amended: every Db closes the handle it wraps once, when its last
\* reference is dropped, so a handle is closed as many times as Db objects
\* that wrapped it have been destroyed: exactly once, at the last drop, when
\* one Db wraps it, and once per owner when inherit_db was given a handle a
\* Db already owned.
C13_ClosedOncePerOwner ==
    \A r \in Res :
        OwnersOf(r) # {} =>
            /\ native[r].closes = Cardinality({c \in OwnersOf(r) : ~Held(c)})
            /\ (\A c \in OwnersOf(r) : Held(c)) => native[r].st = "open"
            /\ Cardinality(OwnersOf(r)) = 1 => native[r].closes <= 1

\* inherit_db has just wrapped a handle no other Db owns.
C13_Witness ==
    /\ last.op = "inherit_db" /\ last.arg = "none"
    /\ Cardinality(OwnersOf(db[last.c].m_db)) = 1
    /\ native[db[last.c].m_db].st = "open"
    /\ native[db[last.c].m_db].closes = 0
\* C14: last_insert_rowid on a connection returns the value the engine
\* keeps for that connection's own handle; an exec on one connection leaves
\* the value of every other connection as it was; an insert that succeeds
\* sets the value of the connection it ran on to the id of the inserted row,
\* and an exec that inserts nothing leaves it as it was.
C14_RowidPerConnection ==
    [][/\ last'.op = "last_insert_rowid" =>
            /\ last'.value = native[db[last'.c].m_db].last_rowid
            /\ native' = native
       /\ last'.op = "exec" =>
            /\ \A r \in Res \ {db[last'.c].m_db} :
                  native'[r].last_rowid = native[r].last_rowid
            /\ native'[db[last'.c].m_db].last_rowid =
                  IF last'.arg = "WRITE" /\ last'.code = SQLITE_INSERT
                  THEN last'.row.row_id
                  ELSE native[db[last'.c].m_db].last_rowid]_vars

\* A inserted row 1, B then inserted row 2, and A still returns 1.
C14_Witness ==
    /\ last.op = "last_insert_rowid" /\ last.c = 1
    /\ last.value = 1
    /\ native[db[2].m_db].last_rowid = 2
\* The engine's result for the first statement of the script the step runs.
FirstOf(c) ==
    Run(db, native[db[c].m_db], last'.script[1], last'.code, last'.row)

\* The step is an exec of a script whose first statement succeeded and
\* whose second one failed.
LaterFailed ==
    /\ last'.op = "exec" /\ last'.arg = "SCRIPT"
    /\ last'.rc = "error"
    /\ FirstOf(last'.c).rc = "ok"

\* C15 (part): when a later statement of a script fails, the engine is left
\* exactly as the earlier statements left it and no rollback trampoline has
\* run beyond theirs; a row written outside a transaction stays committed.
C15_EarlierEffectsRemain ==
    [][LaterFailed =>
          /\ native'[db[last'.c].m_db] = FirstOf(last'.c).e
          /\ last'.calls = FirstOf(last'.c).calls
          /\ (last'.script[1] = "WRITE" /\ ~native[db[last'.c].m_db].inTxn) =>
                native'[db[last'.c].m_db].rows =
                    native[db[last'.c].m_db].rows + 1]_vars

\* C15: when a later statement of a script fails, exec raises ExecFailed
\* and the effects of the earlier statements remain.
C15_RaisesAndKeeps ==
    [][LaterFailed =>
          /\ last'.res = "ExecFailed"
          /\ native'[db[last'.c].m_db] = FirstOf(last'.c).e]_vars

\* A script wrote a row outside a transaction, its second statement failed,
\* exec raised ExecFailed and the row is committed.
C15_Witness ==
    /\ last.op = "exec" /\ last.arg = "SCRIPT"
    /\ last.script = <<"WRITE", "BAD">>
    /\ last.res = "ExecFailed"
    /\ native[db[last.c].m_db].rows = 1
\* C16: no trampoline runs against a closure that has been destroyed: every
\* closure the engine dispatched into during the last call was alive (a
\* destroyed slot that held no closure has nothing to dispatch into).
C16_NoDestroyedClosure ==
    \A k \in DOMAIN last.calls :
        last.calls[k].fn = "destroyed" => last.calls[k].was = NoFn
\* C17: when the closure registered for a kind re-registers a closure of
\* that kind on its connection while it runs, the run is of that closure
\* itself, what the commit trampoline returns to the engine is that
\* closure's own answer, and after the call the connection holds the newly
\* registered closure; every closure an exec runs is the one its connection
\* held for the kind when the exec began, so the next event of the kind
\* goes to the new closure.
C17_ReentrantRegistration ==
    [][last'.op = "exec" =>
          \A k \in DOMAIN last'.calls :
             LET run == last'.calls[k]
                 held == HookOf(db, last'.c, run.hook)
             IN /\ run.fn # NoFn => run.fn = held
                /\ (run.fn # NoFn /\ held \in Reentrant) =>
                      /\ HookOf(db', last'.c, run.hook) = Registers(held)
                      /\ run.hook = "commit" =>
                            run.ret = CommitRet(CommitFnResult(held))
                /\ (run.fn = NoFn \/ held \notin Reentrant) =>
                      HookOf(db', last'.c, run.hook) = held]_vars

\* The commit closure "c_swap" registered "allow" and denied the commit: the
\* exec failed, its row is gone, and the connection now holds "allow".
C17_Witness ==
    /\ last.op = "exec" /\ last.arg = "WRITE"
    /\ \E k \in DOMAIN last.calls :
          /\ last.calls[k].hook = "commit"
          /\ last.calls[k].fn = "c_swap"
          /\ last.calls[k].ret = 1
    /\ db[last.c].m_commit_hook = "allow"
    /\ native[db[last.c].m_db].rows = 0
Kinds == {"update", "commit", "rollback"}

\* C18: a registration changes the closure of no other kind and of no other
\* connection, and nothing in the engine of another connection; prepare and
\* last_insert_rowid change no closure; exec changes no closure either, but
\* for the registration a closure it runs makes itself, of its own kind on
\* its own connection.
C18_Frame ==
    [][/\ last'.op \in Registrations =>
            /\ \A c \in Conns, h \in Kinds :
                  (c # last'.c \/ h # KindOf(last'.op)) =>
                      HookOf(db', c, h) = HookOf(db, c, h)
            /\ \A r \in Res \ {db[last'.c].m_db} : native'[r] = native[r]
       /\ last'.op \in {"prepare", "last_insert_rowid"} =>
            \A c \in Conns, h \in Kinds : HookOf(db', c, h) = HookOf(db, c, h)
       /\ last'.op = "exec" =>
            \A c \in Conns, h \in Kinds :
               HookOf(db', c, h) # HookOf(db, c, h) =>
                  /\ c = last'.c
                  /\ \E k \in DOMAIN last'.calls :
                        /\ last'.calls[k].hook = h
                        /\ last'.calls[k].fn \in Reentrant]_vars

\* An update closure was just registered on connection 1, which holds a
\* commit closure, while connection 2 holds an update and a rollback
\* closure.
C18_Witness ==
    /\ last.op = "update_hook" /\ last.c = 1
    /\ db[1].m_update_hook = "u1"
    /\ db[1].m_commit_hook = "deny"
    /\ db[2].m_update_hook = "u1"
    /\ db[2].m_rollback_hook = "r1"
====
